---- MODULE Spec2Model ----
(***************************************************************************)
(* The director engine of st-plot-director (src/index.js, the current      *)
(* revision of the file: lines 1317-3333).                                 *)
(*                                                                         *)
(* The engine is a set of handlers that run on one JavaScript thread.  A   *)
(* handler runs without interruption up to its next await, so every action *)
(* below is one such run: from an event (a click on Start or Stop, the     *)
(* host's GENERATION_ENDED event) or from the resumption of a suspended    *)
(* runDirectorRound activation, up to the next await or the return.        *)
(***************************************************************************)
EXTENDS Integers, Sequences, FiniteSets, Bags, TLC

\* ---- bounds of the model -------------------------------------------------

\* activations of runDirectorRound that have passed its guard and not returned
\* yet, at any one time
MaxActs == 2
\* largest configured number of rounds (settings.rounds)
MaxRounds == 3

\* ---- program constants ---------------------------------------------------

\* defaultSettings.rounds, and the fallback of the rounds field
DefaultRounds == 5

\* text values of the configuration fields: empty, blank, non-blank
Texts == {"", " ", "m"}

\* String.prototype.trim on the texts of the model
Trim(t) == IF t = " " THEN "" ELSE t

\* truthiness of a JavaScript string
Truthy(t) == t # ""

VARIABLES
    settings,                \* the extension's settings object (getSettings())
    isProcessing,            \* module-level flag
    currentAbortController,  \* module-level: 0 is null, else an AbortController
    aborted,                 \* the AbortControllers whose signal has fired
    act,                     \* the activations of runDirectorRound that have not returned (a bag)
    sent,                    \* turns handed to sendAsUserAndGenerate since the last successful start
    toasts,                  \* the toastr notifications shown by the latest handler run
    logged,                  \* the lines written by log() in the latest handler run
    call                     \* a call of one of the functions of the prompt and transport layers:
                             \* its name, its arguments and, once it has returned, its result

vars == <<settings, isProcessing, currentAbortController, aborted, act, sent, toasts, logged, call>>

\* no function of the prompt and transport layers is being followed
NoCall == [fn |-> "none"]

\* An activation of runDirectorRound, suspended at an await:
\*   pc      "wait" waitForChatu8Complete, "llm" callDirectorLLM,
\*           "review" showPreviewPopup, "send" sendAsUserAndGenerate
\*   own     the AbortController it created
\*   sig     the AbortController whose signal it passed to callDirectorLLM
\*   stopped, cancelledBy   history: Stop was clicked while it was in flight;
\*           the handler whose abort() fired the signal of its call
\* AbortControllers are numbered in the order of their creation.
NewAct(tok) ==
    [pc |-> "wait", own |-> tok, sig |-> 0, stopped |-> FALSE, cancelledBy |-> ""]

\* a round activation is in flight from its guard to its hand-off or exit
InFlightPcs == {"wait", "llm", "review"}
Activations == BagToSet(act)
InFlight == {r \in Activations : r.pc \in InFlightPcs}
\* an activation that awaits sendAsUserAndGenerate: its turn is handed off
Sending == [NewAct(0) EXCEPT !.pc = "send"]
NumInFlight == BagCardinality(act) - CopiesIn(Sending, act)

\* ---- the state the handlers read and write -------------------------------

State ==
    [settings |-> settings, isProcessing |-> isProcessing,
     ctl |-> currentAbortController, aborted |-> aborted, act |-> act,
     sent |-> sent, toasts |-> << >>, logged |-> << >>, overflow |-> FALSE]

Add(g, r) == [g EXCEPT !.act = @ (+) SetToBag({r})]
Remove(g, r) == [g EXCEPT !.act = @ (-) SetToBag({r})]

\* the AbortControllers still referenced in g
Referenced(g) ==
    ({g.ctl} \cup {r.own : r \in BagToSet(g.act)} \cup {r.sig : r \in BagToSet(g.act)}) \ {0}

\* the number of t among the controllers R, in the order of creation
Rank(t, R) == IF t = 0 THEN 0 ELSE Cardinality({u \in R : u <= t})

\* the handler run that ends in g; the AbortControllers that are no longer
\* referenced are collected and the others renumbered
Apply(g) ==
    LET R == Referenced(g)
        Ren(r) == [r EXCEPT !.own = Rank(@, R), !.sig = Rank(@, R)]
    IN /\ ~g.overflow
       /\ settings' = g.settings
       /\ isProcessing' = g.isProcessing
       /\ currentAbortController' = Rank(g.ctl, R)
       /\ aborted' = {Rank(t, R) : t \in g.aborted \cap R}
       /\ act' = BagOfAll(Ren, g.act)
       /\ sent' = g.sent
       /\ toasts' = g.toasts
       /\ logged' = g.logged
       /\ call' = call

\* AbortController.abort() on the controller c (0: no controller), by handler h
Abort(g, c, h) ==
    LET Mark(r) == IF r.pc = "llm" /\ r.sig = c /\ c \notin g.aborted
                   THEN [r EXCEPT !.cancelledBy = h] ELSE r
    IN IF c = 0 THEN g
       ELSE [g EXCEPT !.aborted = @ \cup {c}, !.act = BagOfAll(Mark, @)]

Toast(g, m) == [g EXCEPT !.toasts = Append(@, m)]

\* log(): the lines of the model are "aborted" (the catch block), "skipped"
\* (the review popup) and the errors given to handleError
Log(g, m) == [g EXCEPT !.logged = Append(@, m)]

\* getCurrentPreset: "none" no selected preset, "empty" a preset without
\* system_prompt, "ok" a preset with one
getCurrentPreset(s) == s.preset

\* stopDirector without the abort() of the current controller
stopDirector_NoAbort(g, h) ==
    LET g1 == [g EXCEPT !.settings.running = FALSE, !.isProcessing = FALSE, !.ctl = 0]
    IN IF g.settings.running THEN Toast(g1, "stopped") ELSE g1

\* stopDirector that leaves isProcessing as it is
stopDirector_FlagKept(g, h) ==
    LET g1 == [g EXCEPT !.settings.running = FALSE]
        g2 == [Abort(g1, g1.ctl, h) EXCEPT !.ctl = 0]
    IN IF g.settings.running THEN Toast(g2, "stopped") ELSE g2

stopDirector(g, h) ==
    LET g1 == [g EXCEPT !.settings.running = FALSE, !.isProcessing = FALSE]
        g2 == [Abort(g1, g1.ctl, h) EXCEPT !.ctl = 0]
    IN IF g.settings.running THEN Toast(g2, "stopped") ELSE g2

\* handleError: toastr.error of the classified message, and the log of the
\* error (the model logs its name)
handleError(g, name) == Log(Toast(g, "error"), name)

\* the catch block without the test of err.name
catchBlock_AbortIsError(g, name) ==
    stopDirector([handleError(g, name) EXCEPT !.isProcessing = FALSE], "round")

\* the catch block that takes the TimeoutError for a cancellation
catchBlock_TimeoutIsAbort(g, name) ==
    LET g1 == IF name \in {"AbortError", "TimeoutError"}
              THEN Log(g, "aborted") ELSE handleError(g, name)
    IN stopDirector([g1 EXCEPT !.isProcessing = FALSE], "round")

\* the catch block without the call of stopDirector
catchBlock_NoStop(g, name) ==
    LET g1 == IF name = "AbortError" THEN Log(g, "aborted") ELSE handleError(g, name)
    IN [g1 EXCEPT !.isProcessing = FALSE]

\* the catch block of runDirectorRound
catchBlock(g, name) ==
    LET g1 == IF name = "AbortError" THEN Log(g, "aborted") ELSE handleError(g, name)
    IN stopDirector([g1 EXCEPT !.isProcessing = FALSE], "round")

\* the finally block of runDirectorRound, and its return
finallyBlock(g) ==
    IF g.ctl # 0 /\ g.ctl \in g.aborted THEN [g EXCEPT !.ctl = 0] ELSE g

\* ---- runDirectorRound ----------------------------------------------------
\* In the operators below g is the state without the activation r that runs.

\* the call of callDirectorLLM by activation r, up to its await
callDirectorLLM(g, r) ==
    IF g.ctl = 0
    THEN \* currentAbortController.signal of null: a TypeError
         finallyBlock(catchBlock(g, "TypeError"))
    ELSE Add(g, [r EXCEPT !.pc = "llm", !.sig = g.ctl])

\* after the readiness wait: the first running check, then the call
AfterWait(g, r) ==
    IF ~g.settings.running THEN finallyBlock(g) ELSE callDirectorLLM(g, r)

\* from the guard to the first await; h is the handler that calls it
runDirectorRound(g, h) ==
    IF ~g.settings.running \/ g.isProcessing THEN g
    ELSE IF g.settings.currentRound >= g.settings.rounds THEN stopDirector(g, h)
    ELSE IF BagCardinality(g.act) >= MaxActs THEN [g EXCEPT !.overflow = TRUE]
    ELSE LET tok == Cardinality(Referenced(g)) + 1
             g1 == [Abort(g, g.ctl, h) EXCEPT !.ctl = tok]
             g2 == [g1 EXCEPT !.isProcessing = TRUE, !.settings.currentRound = @ + 1]
         IN IF g2.settings.waitForChatu8
            THEN Add(g2, NewAct(tok))
            ELSE AfterWait(g2, NewAct(tok))

\* the hand-off without the stop of the last round
SendPath_NoLastRoundStop(g, r, text) ==
    IF ~g.settings.running THEN finallyBlock(g)
    ELSE Add([g EXCEPT !.isProcessing = FALSE, !.sent = @ + 1], Sending)

\* the hand-off that leaves isProcessing set
SendPath_FlagNotCleared(g, r, text) ==
    IF ~g.settings.running THEN finallyBlock(g)
    ELSE LET isLastRound == g.settings.currentRound >= g.settings.rounds
             g2 == IF isLastRound THEN stopDirector(g, "round") ELSE g
         IN Add([g2 EXCEPT !.sent = @ + 1], Sending)

\* the hand-off of runDirectorRound: from the second running check to the
\* await of sendAsUserAndGenerate
SendPath(g, r, text) ==
    IF ~g.settings.running THEN finallyBlock(g)
    ELSE LET isLastRound == g.settings.currentRound >= g.settings.rounds
             g1 == [g EXCEPT !.isProcessing = FALSE]
             g2 == IF isLastRound THEN stopDirector(g1, "round") ELSE g1
         IN Add([g2 EXCEPT !.sent = @ + 1], Sending)

\* the derived signal without the ceiling timeout
combinedSignal_NoTimeout(signal) == [timeout |-> FALSE, external |-> signal]

\* combinedSignal (utils/api.js): AbortSignal.any of AbortSignal.timeout and
\* of the signal of the controller that was passed
combinedSignal(signal) == [timeout |-> TRUE, external |-> signal]

\* the outcomes of callDirectorLLM, whose fetch is bound to the derived
\* signal: the AbortError of the signal passed to it once that has fired;
\* else a text, a blank text, any other error, or the TimeoutError of the
\* ceiling timeout
LLMOutcomes(g, r) ==
    LET derived == combinedSignal(r.sig)
    IN IF derived.external # 0 /\ derived.external \in g.aborted
       THEN {"AbortError"}
       ELSE {"text", "blank", "Error"}
            \cup (IF derived.timeout THEN {"TimeoutError"} ELSE {})

\* the settling of the call with an empty text taken as a failure
AfterLLM_EmptyIsFatal(g, r, o) ==
    CASE o = "text" ->
           IF g.settings.mode = "preview"
           THEN Add(g, [r EXCEPT !.pc = "review"])
           ELSE SendPath(g, r, "m")
      [] OTHER -> finallyBlock(catchBlock(g, o))

\* after callDirectorLLM has settled with outcome o
AfterLLM(g, r, o) ==
    CASE o = "text" ->
           IF g.settings.mode = "preview"
           THEN Add(g, [r EXCEPT !.pc = "review"])
           ELSE SendPath(g, r, "m")
      [] o = "blank" ->
           finallyBlock([Toast(g, "empty") EXCEPT !.isProcessing = FALSE])
      [] OTHER -> finallyBlock(catchBlock(g, o))

\* the skip without the stop of the last round
AfterReview_SkipNoLastRoundStop(g, r, edited) ==
    IF edited = "null"
    THEN finallyBlock([Log(g, "skipped") EXCEPT !.isProcessing = FALSE])
    ELSE SendPath(g, r, edited)

\* after showPreviewPopup: "null" is Skip, else the text of the textarea
AfterReview(g, r, edited) ==
    IF edited = "null"
    THEN LET g1 == [Log(g, "skipped") EXCEPT !.isProcessing = FALSE]
         IN finallyBlock(IF g1.settings.currentRound >= g1.settings.rounds
                         THEN stopDirector(g1, "round") ELSE g1)
    ELSE SendPath(g, r, edited)

\* after sendAsUserAndGenerate: it resolved, or saveChat or generate rejected
AfterSend(g, r, ok) == finallyBlock(IF ok THEN g ELSE catchBlock(g, "Error"))

\* waitForChatu8Complete resolves: it never rejects
WaitDone(r) ==
    /\ r.pc = "wait"
    /\ Apply(AfterWait(Remove(State, r), r))

LLMDone(r, o) ==
    /\ r.pc = "llm"
    /\ o \in LLMOutcomes(State, r)
    /\ Apply(AfterLLM(Remove(State, r), r, o))

ReviewDone(r, edited) ==
    /\ r.pc = "review"
    /\ Apply(AfterReview(Remove(State, r), r, edited))

SendDone(r, ok) ==
    /\ r.pc = "send"
    /\ Apply(AfterSend(Remove(State, r), r, ok))

\* ---- the handlers --------------------------------------------------------

\* the preconditions without the model check of the proxy transport
StartRefusal_NoProxyModel(s) ==
    IF ~s.enabled THEN "enable first"
    ELSE IF getCurrentPreset(s) # "ok" THEN "NO_PRESET"
    ELSE IF s.connectionMode = "direct"
    THEN IF ~Truthy(Trim(s.apiUrl)) THEN "no api url"
         ELSE IF ~Truthy(Trim(s.model)) THEN "NO_MODEL"
         ELSE ""
    ELSE ""

\* the reason startDirector refuses to start, "" when it starts
StartRefusal(s) ==
    IF ~s.enabled THEN "enable first"
    ELSE IF getCurrentPreset(s) # "ok" THEN "NO_PRESET"
    ELSE IF s.connectionMode = "direct"
    THEN IF ~Truthy(Trim(s.apiUrl)) THEN "no api url"
         ELSE IF ~Truthy(Trim(s.model)) THEN "NO_MODEL"
         ELSE ""
    ELSE IF ~Truthy(Trim(s.model)) THEN "no model name"
    ELSE ""

\* startDirector without the reset of currentRound
startDirector_NoReset(g) ==
    LET why == StartRefusal(g.settings) IN
    IF why # "" THEN Toast(g, why)
    ELSE LET g1 == [g EXCEPT !.settings.running = TRUE,
                             !.isProcessing = FALSE,
                             !.sent = 0]
         IN runDirectorRound(Toast(g1, "started"), "start")

startDirector(g) ==
    LET why == StartRefusal(g.settings) IN
    IF why # "" THEN Toast(g, why)
    ELSE LET g1 == [g EXCEPT !.settings.running = TRUE,
                             !.settings.currentRound = 0,
                             !.isProcessing = FALSE,
                             !.sent = 0]
         IN runDirectorRound(Toast(g1, "started"), "start")

\* the Start button
StartClicked == Apply(startDirector(State))

\* the Stop button with a report that does not depend on wasRunning
StopClicked_AlwaysReports ==
    LET g == stopDirector([State EXCEPT !.settings.running = TRUE], "stop")
        Mark(r) == IF r.pc \in InFlightPcs THEN [r EXCEPT !.stopped = TRUE] ELSE r
    IN Apply([g EXCEPT !.act = BagOfAll(Mark, @)])

\* the Stop button; the activations in flight are marked
StopClicked ==
    LET g == stopDirector(State, "stop")
        Mark(r) == IF r.pc \in InFlightPcs THEN [r EXCEPT !.stopped = TRUE] ELSE r
    IN Apply([g EXCEPT !.act = BagOfAll(Mark, @)])

\* the handler without the test of settings.enabled
onGenerationEnded_IgnoresEnabled(g) ==
    IF ~g.settings.running THEN g
    ELSE IF g.isProcessing THEN g
    ELSE IF g.settings.currentRound >= g.settings.rounds THEN g
    ELSE runDirectorRound(g, "trigger")

\* the handler of the host's GENERATION_ENDED event
onGenerationEnded(g) ==
    IF ~g.settings.enabled \/ ~g.settings.running THEN g
    ELSE IF g.isProcessing THEN g
    ELSE IF g.settings.currentRound >= g.settings.rounds THEN g
    ELSE runDirectorRound(g, "trigger")

GenerationEnded == Apply(onGenerationEnded(State))

\* ---- initial state -------------------------------------------------------

\* the settings a previous session can have persisted; the endpoint is only
\* read by the direct transport
Persisted ==
    {s \in [enabled : BOOLEAN, mode : {"auto", "preview"}, rounds : 1..MaxRounds,
            currentRound : 0..MaxRounds, running : BOOLEAN,
            waitForChatu8 : BOOLEAN, preset : {"none", "empty", "ok"},
            connectionMode : {"proxy", "direct"}, apiUrl : Texts, model : Texts] :
        /\ s.currentRound <= s.rounds
        /\ s.connectionMode = "proxy" => s.apiUrl = ""}

\* the reset of the initialisation callback
InitSettings(p) ==
    IF p.running THEN [p EXCEPT !.running = FALSE, !.currentRound = 0] ELSE p

Init ==
    /\ \E p \in Persisted : settings = InitSettings(p)
    /\ isProcessing = FALSE
    /\ currentAbortController = 0
    /\ aborted = {}
    /\ act = EmptyBag
    /\ sent = 0
    /\ toasts = << >>
    /\ logged = << >>
    /\ call = NoCall

\* how callDirectorLLM can settle, and what showPreviewPopup can return
LLMResults == {"text", "blank", "AbortError", "TimeoutError", "Error"}
ReviewResults == {"null", "", "m"}

Next ==
    \/ StartClicked
    \/ StopClicked
    \/ GenerationEnded
    \/ \E r \in Activations : WaitDone(r)
    \/ \E r \in Activations, o \in LLMResults : LLMDone(r, o)
    \/ \E r \in Activations, e \in ReviewResults : ReviewDone(r, e)
    \/ \E r \in Activations, ok \in BOOLEAN : SendDone(r, ok)

Spec == Init /\ [][Next]_vars

\* ---- the settings panel --------------------------------------------------

\* what the rounds field can hold when its change event fires: not a number,
\* or a number
RoundsInputs ==
    {[nan |-> TRUE, n |-> 0]} \cup {[nan |-> FALSE, n |-> k] : k \in -1..MaxRounds}

\* parseInt(roundsEl.value) || 5
ParseRounds(v) == IF v.nan \/ v.n = 0 THEN DefaultRounds ELSE v.n

\* the change handler of the rounds field
RoundsChanged ==
    \E v \in RoundsInputs :
        Apply([State EXCEPT !.settings.rounds = ParseRounds(v)])

NextSettings == Next \/ RoundsChanged

\* the engine together with the settings panel
SpecSettings == Init /\ [][NextSettings]_vars

\* ==== the prompt layer ====================================================
\* A text is a sequence of symbols: single characters, and the literal
\* fragments of the templates of the source ("User", "<", "\n", ...).

\* the white space that String.prototype.trim removes
WhiteSpace == {" ", "\n", "\r"}

\* !t.trim(): the text is empty or white space only
IsBlank(t) == \A i \in DOMAIN t : t[i] \in WhiteSpace

\* String.prototype.trim
TrimText(t) ==
    LET I == {i \in DOMAIN t : t[i] \notin WhiteSpace}
        lo == CHOOSE i \in I : \A j \in I : i <= j
        hi == CHOOSE i \in I : \A j \in I : j <= i
    IN IF I = {} THEN << >> ELSE SubSeq(t, lo, hi)

\* Array.prototype.join
RECURSIVE Join(_, _)
Join(parts, sep) ==
    IF parts = << >> THEN << >>
    ELSE IF Len(parts) = 1 THEN parts[1]
    ELSE parts[1] \o sep \o Join(Tail(parts), sep)

\* Array.prototype.slice(start) on a sequence
Slice(a, start) ==
    LET from == IF start < 0
                THEN (IF Len(a) + start < 0 THEN 0 ELSE Len(a) + start)
                ELSE (IF start > Len(a) THEN Len(a) ELSE start)
    IN SubSeq(a, from + 1, Len(a))

\* buildChatHistory: the loop over the filtered turns, then the trim
RECURSIVE HistoryLines(_, _)
HistoryLines(filtered, mode) ==
    IF filtered = << >> THEN << >>
    ELSE LET msg == Head(filtered)
             name == IF msg.name # << >> THEN msg.name
                     ELSE IF msg.is_user THEN <<"User">> ELSE <<"Character">>
             role == IF msg.is_user THEN "user" ELSE "assistant"
             line == IF mode = "text"
                     THEN name \o <<":", " ">> \o msg.mes \o <<"\n", "\n">>
                     ELSE <<"[", role, "]", " ">> \o name \o <<":", " ">> \o msg.mes
                          \o <<"\n", "\n">>
         IN line \o HistoryLines(Tail(filtered), mode)

\* the turns buildChatHistory renders
HistoryTurns(chat, s) ==
    LET recentChat == Slice(chat, 0 - s.contextLength)
        Keep(msg) == ~(msg.is_system /\ ~msg.is_user)
    IN SelectSeq(recentChat, Keep)

buildChatHistory(chat, s, mode) == TrimText(HistoryLines(HistoryTurns(chat, s), mode))

\* settings.outlinePromptRounds || 999
PromptCutoff(s) == IF s.outlinePromptRounds = 0 THEN 999 ELSE s.outlinePromptRounds

\* the prompt decision with an inclusive cutoff
shouldInjectOutlineToLLM_Inclusive(s) ==
    IF ~s.outlineEnabled THEN FALSE
    ELSE IF IsBlank(s.outline) THEN FALSE
    ELSE s.currentRound <= PromptCutoff(s)

shouldInjectOutlineToLLM(s) ==
    IF ~s.outlineEnabled THEN FALSE
    ELSE IF IsBlank(s.outline) THEN FALSE
    ELSE s.currentRound < PromptCutoff(s)

\* the switch of buildMessages: the content of block b; a is the call's
\* arguments (the settings s, the current preset, the chat)
blockContent(b, a) ==
    CASE b.id = "system_prompt" -> a.preset.system_prompt
      [] b.id = "plot_outline" ->
            IF shouldInjectOutlineToLLM(a.s) THEN a.s.outline ELSE << >>
      [] b.id = "chat_history" -> buildChatHistory(a.chat, a.s, a.preset.chatHistoryMode)
      [] b.id = "instruction" -> b.content
      [] OTHER -> IF b.type = "custom" THEN b.content ELSE << >>

\* the wrapping without the line breaks around the content
Wrapped_NoLineBreaks(b, content) ==
    IF ~IsBlank(b.tagName)
    THEN LET tagName == TrimText(b.tagName)
         IN <<"<">> \o tagName \o <<">">> \o content \o <<"</">> \o tagName \o <<">">>
    ELSE content

\* the wrapping of a block's content in its tag
Wrapped(b, content) ==
    IF ~IsBlank(b.tagName)
    THEN LET tagName == TrimText(b.tagName)
         IN <<"<">> \o tagName \o <<">", "\n">> \o content
            \o <<"\n", "</">> \o tagName \o <<">">>
    ELSE content

\* the loop of buildMessages over the blocks from the i-th on
RECURSIVE ContentParts(_, _, _)
ContentParts(a, i, contentParts) ==
    IF i > Len(a.blocks) THEN contentParts
    ELSE LET block == a.blocks[i]
             content == blockContent(block, a)
         IN IF ~block.enabled THEN ContentParts(a, i + 1, contentParts)
            ELSE IF IsBlank(content) THEN ContentParts(a, i + 1, contentParts)
            ELSE ContentParts(a, i + 1, Append(contentParts, Wrapped(block, content)))

buildMessages(a) ==
    <<[role |-> "user", content |-> Join(ContentParts(a, 1, << >>), <<"\n", "\n">>)]>>

\* ---- the regex rules -----------------------------------------------------
\* a pattern is one literal symbol, or "(" which is not a regular expression
\* new RegExp(rule.pattern, rule.flags || 'g'): not ok when it throws
RegExp(pattern, flags) ==
    IF pattern = <<"(">> THEN [ok |-> FALSE]
    ELSE [ok |-> TRUE, source |-> pattern[1], global |-> (flags = "" \/ flags = "g")]

\* content.replace(regex, replacement): every match with the flag g, the first
\* match without it
RECURSIVE replace(_, _, _)
replace(content, regex, replacement) ==
    IF content = << >> THEN << >>
    ELSE IF Head(content) # regex.source
         THEN <<Head(content)>> \o replace(Tail(content), regex, replacement)
         ELSE replacement \o (IF regex.global
                              THEN replace(Tail(content), regex, replacement)
                              ELSE Tail(content))

\* applyRegexRules: activeRules
activeRules(rules) == SelectSeq(rules, LAMBDA r : r.enabled /\ r.pattern # << >>)

\* applyRegexRules: the compiled rules, in the order of the list; a rule that
\* does not compile is left out
RECURSIVE compiled(_)
compiled(active) ==
    IF active = << >> THEN << >>
    ELSE LET rule == Head(active)
             regex == RegExp(rule.pattern, rule.flags)
         IN (IF ~regex.ok THEN << >>
             ELSE <<[regex |-> regex, replacement |-> rule.replacement]>>)
            \o compiled(Tail(active))

\* applyRegexRules: the warnings of the rules that do not compile
RECURSIVE warnings(_)
warnings(active) ==
    IF active = << >> THEN << >>
    ELSE (IF ~RegExp(Head(active).pattern, Head(active).flags).ok
          THEN <<"invalid regex">> ELSE << >>) \o warnings(Tail(active))

\* the loop over the compiled rules where only the last one is applied, to
\* the content of the message as it came in
replaceAll_EachOnInput(content, cs) ==
    IF cs = << >> THEN content
    ELSE replace(content, cs[Len(cs)].regex, cs[Len(cs)].replacement)

\* applyRegexRules: the loop over the compiled rules for one content
RECURSIVE replaceAll(_, _)
replaceAll(content, cs) ==
    IF cs = << >> THEN content
    ELSE replaceAll(replace(content, cs[1].regex, cs[1].replacement), Tail(cs))

applyRegexRules(messages, rules) ==
    IF rules = << >> THEN messages
    ELSE IF activeRules(rules) = << >> THEN messages
    ELSE IF compiled(activeRules(rules)) = << >> THEN messages
    ELSE [i \in DOMAIN messages |->
             [messages[i] EXCEPT !.content = replaceAll(@, compiled(activeRules(rules)))]]

\* ---- the Claude adapter --------------------------------------------------
\* Message objects live in a heap (a sequence of objects, an object being
\* known by its position); the input list is the objects 1..Len(messages).

\* mergedMsgs.push(msg): the object of the input list itself is pushed
push_NoCopy(heap, mergedMsgs, id) == [heap |-> heap, mergedMsgs |-> Append(mergedMsgs, id)]

\* mergedMsgs.push({ ...msg }): a new object with the fields of msg
push(heap, mergedMsgs, id) ==
    [heap |-> Append(heap, heap[id]), mergedMsgs |-> Append(mergedMsgs, Len(heap) + 1)]

\* generateDirectClaude: the loop that merges consecutive messages of one role
RECURSIVE merge(_, _, _, _)
merge(chatMsgs, k, heap, mergedMsgs) ==
    IF k > Len(chatMsgs) THEN [heap |-> heap, mergedMsgs |-> mergedMsgs]
    ELSE LET msg == heap[chatMsgs[k]]
             last == mergedMsgs[Len(mergedMsgs)]
         IN IF Len(mergedMsgs) > 0 /\ heap[last].role = msg.role
            THEN merge(chatMsgs, k + 1,
                       [heap EXCEPT ![last].content = @ \o <<"\n", "\n">> \o msg.content],
                       mergedMsgs)
            ELSE LET p == push(heap, mergedMsgs, chatMsgs[k])
                 IN merge(chatMsgs, k + 1, p.heap, p.mergedMsgs)

\* generateDirectClaude without the placeholder
unshift_Never(msgs) == msgs

\* generateDirectClaude: the placeholder in front of a first assistant message
unshift(msgs) ==
    IF Len(msgs) > 0 /\ msgs[1].role = "assistant"
    THEN <<[role |-> "user", content |-> <<"[Conversation start]">>]>> \o msgs
    ELSE msgs

\* generateDirectClaude: the body of the request (messages, and system when
\* systemText is not empty), with the input list as the call leaves it
generateDirectClaude(messages) ==
    LET ids == [i \in 1..Len(messages) |-> i]
        systemParts == LET sys == SelectSeq(messages, LAMBDA m : m.role = "system")
                       IN [i \in 1..Len(sys) |-> sys[i].content]
        systemText == Join(systemParts, <<"\n", "\n">>)
        chatMsgs == SelectSeq(ids, LAMBDA i : messages[i].role # "system")
        m == merge(chatMsgs, 1, messages, << >>)
        sent_ == unshift([i \in 1..Len(m.mergedMsgs) |-> m.heap[m.mergedMsgs[i]]])
        input == SubSeq(m.heap, 1, Len(messages))
    IN IF systemText # << >>
       THEN [messages |-> sent_, system |-> systemText, input |-> input]
       ELSE [messages |-> sent_, input |-> input]

\* ---- the responses of the transports -------------------------------------
\* A response has a status (0: fetch rejected, body being the message of the
\* rejection), a body text and, decoded from JSON, data: a bare string, or an
\* object with choices (a list of [content, text]) and content (a list of
\* [text]); a field that is missing is the empty list or the empty text.
\* The result of a transport is [text] or [error].

\* new Error(message): no status property
Error(message) == [error |-> [message |-> message, status |-> 0]]

\* the part the three transports share: the rejection of fetch, and
\* if (!response.ok) throw new Error(`${name} request failed (${status}): ${text}`)
failed(name, response) ==
    IF response.status = 0 THEN Error(response.body)
    ELSE Error(<<name, " request failed (", ToString(response.status), "): ">>
               \o response.body)

\* generateViaProxy with the Claude shape tried before the OpenAI shape
generateViaProxy_ClaudeFirst(response) ==
    LET data == response.data
    IN IF response.status \notin 200..299 THEN failed("Proxy", response)
       ELSE IF data.string THEN [text |-> data.value]
       ELSE IF data.content # << >> THEN [text |-> data.content[1].text]
       ELSE IF data.choices # << >>
            THEN [text |-> IF data.choices[1].content # << >>
                           THEN data.choices[1].content ELSE data.choices[1].text]
       ELSE Error(<<"Unexpected proxy response format">>)

generateViaProxy(response) ==
    LET data == response.data
    IN IF response.status \notin 200..299 THEN failed("Proxy", response)
       ELSE IF data.string THEN [text |-> data.value]
       ELSE IF data.choices # << >>
            THEN [text |-> IF data.choices[1].content # << >>
                           THEN data.choices[1].content ELSE data.choices[1].text]
       ELSE IF data.content # << >> THEN [text |-> data.content[1].text]
       ELSE Error(<<"Unexpected proxy response format">>)

generateDirectOpenAI(response) ==
    LET data == response.data
    IN IF response.status \notin 200..299 THEN failed("OpenAI", response)
       ELSE IF data.string \/ data.choices = << >> \/ data.choices[1].content = << >>
            THEN Error(<<"OpenAI response missing choices[0].message.content">>)
       ELSE [text |-> data.choices[1].content]

\* generateDirectClaude: from the response on
generateDirectClaude_Response(response) ==
    LET data == response.data
    IN IF response.status \notin 200..299 THEN failed("Claude", response)
       ELSE IF data.string \/ data.content = << >> \/ data.content[1].text = << >>
            THEN Error(<<"Claude response missing content[0].text">>)
       ELSE [text |-> data.content[1].text]

\* errorMsg.includes(word), a message being a sequence of words
includes(errorMsg, word) == \E i \in DOMAIN errorMsg : errorMsg[i] = word

\* handleError: friendlyMsg, "raw" being the message of the error itself
friendlyMsg(error) ==
    LET errorMsg == error.message
        status == error.status
    IN IF status # 0
       THEN (IF status = 401 THEN "API_401"
             ELSE IF status = 403 THEN "API_403"
             ELSE IF status = 429 THEN "API_429"
             ELSE IF status >= 500 /\ status < 600 THEN "API_500"
             ELSE "raw")
       ELSE (IF includes(errorMsg, "401") THEN "API_401"
             ELSE IF includes(errorMsg, "403") THEN "API_403"
             ELSE IF includes(errorMsg, "429") THEN "API_429"
             ELSE IF includes(errorMsg, "500") \/ includes(errorMsg, "502")
                     \/ includes(errorMsg, "503") THEN "API_500"
             ELSE IF includes(errorMsg, "timeout") \/ includes(errorMsg, "timed out")
                  THEN "TIMEOUT"
             ELSE IF includes(errorMsg, "network") \/ includes(errorMsg, "ECONNREFUSED")
                     \/ includes(errorMsg, "fetch failed") THEN "NETWORK_ERROR"
             ELSE "raw")

\* ---- the SSE stream ------------------------------------------------------
\* A stream is a text whose symbols are "data:", " ", "\n", "\r" and the
\* payloads; the reader delivers it in chunks cut between any two symbols.

\* String.prototype.split('\n')
RECURSIVE split(_)
split(t) ==
    LET N == {i \in DOMAIN t : t[i] = "\n"}
        i == CHOOSE j \in N : \A k \in N : j <= k
    IN IF N = {} THEN <<t>>
       ELSE <<SubSeq(t, 1, i - 1)>> \o split(SubSeq(t, i + 1, Len(t)))

\* buffer = lines.pop() where the rest of the last line is thrown away
pop_Dropped(lines) == << >>

\* buffer = lines.pop(): the line that is not finished yet is kept
pop(lines) == lines[Len(lines)]

\* parseChunk of the OpenAI paths: JSON.parse(data), then
\* choices?.[0]?.delta?.content || null; it throws on data that is not JSON
parseChunk(data) ==
    IF data = <<"{a}">> THEN [ok |-> TRUE, token |-> <<"a">>]
    ELSE IF data = <<"{b}">> THEN [ok |-> TRUE, token |-> <<"b">>]
    ELSE IF data = <<"{}">> THEN [ok |-> TRUE, token |-> << >>]
    ELSE [ok |-> FALSE]

\* readSSEStream: the loop over the finished lines of one chunk; tokens are
\* the calls of onToken, done is the return at the sentinel
RECURSIVE forLines(_, _)
forLines(lines, r) ==
    IF lines = << >> THEN r
    ELSE LET line == Head(lines)
             data == TrimText(SubSeq(line, 3, Len(line)))
             p == parseChunk(data)
         IN IF ~(Len(line) >= 2 /\ line[1] = "data:" /\ line[2] = " ")
            THEN forLines(Tail(lines), r)
            ELSE IF data = <<"[DONE]">> THEN [r EXCEPT !.done = TRUE]
            ELSE IF p.ok /\ p.token # << >>
                 THEN forLines(Tail(lines),
                               [r EXCEPT !.fullText = @ \o p.token,
                                         !.tokens = Append(@, p.token)])
            ELSE forLines(Tail(lines), r)

\* readSSEStream: the loop over the chunks the reader delivers
RECURSIVE readSSEStream(_, _, _)
readSSEStream(chunks, buffer, r) ==
    IF chunks = << >> THEN r
    ELSE LET lines == split(buffer \o Head(chunks))
             r2 == forLines(SubSeq(lines, 1, Len(lines) - 1), r)
         IN IF r2.done THEN r2
            ELSE readSSEStream(Tail(chunks), pop(lines), r2)

\* the outgoing decision taken with the cutoff of the prompt
shouldInjectOutline_PromptCutoff(s) ==
    /\ s.outlineEnabled
    /\ ~IsBlank(s.outline)
    /\ s.outlineInjectRounds > 0
    /\ s.currentRound < PromptCutoff(s)

\* runDirectorRound: shouldInjectOutline, the decision to put the outline in
\* front of the outgoing text
shouldInjectOutline(s) ==
    /\ s.outlineEnabled
    /\ ~IsBlank(s.outline)
    /\ s.outlineInjectRounds > 0
    /\ s.currentRound <= s.outlineInjectRounds

\* runDirectorRound: finalText after the injection of the outline
injectOutline(s, finalText) ==
    IF shouldInjectOutline(s)
    THEN <<"[Plot Outline]", "\n">> \o TrimText(s.outline)
         \o <<"\n", "\n", "[Direction]", "\n">> \o finalText
    ELSE finalText

\* ---- the calls that are followed one at a time ---------------------------

\* the engine is idle, with the default settings
EngineIdle ==
    /\ settings = [enabled |-> FALSE, mode |-> "auto", rounds |-> DefaultRounds,
                   currentRound |-> 0, running |-> FALSE, waitForChatu8 |-> TRUE,
                   preset |-> "none", connectionMode |-> "proxy", apiUrl |-> "",
                   model |-> ""]
    /\ isProcessing = FALSE
    /\ currentAbortController = 0
    /\ aborted = {}
    /\ act = EmptyBag
    /\ sent = 0
    /\ toasts = << >>
    /\ logged = << >>

Returned == "ret" \in DOMAIN call

\* the call returns v
Returns(v) ==
    /\ ~Returned
    /\ call' = [fn |-> call.fn, arg |-> call.arg, ret |-> v]
    /\ UNCHANGED <<settings, isProcessing, currentAbortController, aborted, act, sent,
                   toasts, logged>>

\* ---- C1 ------------------------------------------------------------------
\* C1: in every reachable state settings.currentRound <= settings.rounds.
C1_RoundWithinTotal == settings.currentRound <= settings.rounds

\* ---- C2 ------------------------------------------------------------------
\* C2: at any instant at most one round activation is in flight (between the
\* guard of runDirectorRound and its hand-off or exit).
C2_AtMostOneInFlight == NumInFlight <= 1

\* ---- C3 ------------------------------------------------------------------
\* C3: the number of turns handed to sendAsUserAndGenerate since the last
\* successful start never exceeds settings.rounds.
C3_SentWithinRounds == sent <= settings.rounds

\* ---- C4 ------------------------------------------------------------------
\* C4: when the LLM call of a round was cancelled by a later start, the
\* settling of that call changes none of running, currentRound, isProcessing
\* and the current AbortController, which is neither released nor fired.
C4_SupersededCallInert ==
    [][\A r \in Activations, o \in LLMResults :
          (r.cancelledBy = "start" /\ LLMDone(r, o)) =>
              /\ settings'.running = settings.running
              /\ settings'.currentRound = settings.currentRound
              /\ isProcessing' = isProcessing
              /\ (currentAbortController' = 0) <=> (currentAbortController = 0)
              /\ currentAbortController' \notin aborted']_vars

\* ---- C5 ------------------------------------------------------------------
\* C5: a round that was in flight when Stop was clicked never hands a turn to
\* sendAsUserAndGenerate afterwards.
C5_StoppedRoundNeverSends ==
    [][\A r \in Activations :
          r.stopped =>
              /\ \A o \in LLMResults : LLMDone(r, o) => sent' = sent
              /\ \A e \in ReviewResults : ReviewDone(r, e) => sent' = sent]_vars

\* ---- C7 ------------------------------------------------------------------
\* C7: when a round exits with currentRound = rounds by sending its turn, by
\* a skipped review or by an empty LLM response, running is false after the
\* exit.
C7_LastRoundExitIsIdle ==
    [][\A r \in Activations :
          (\/ LLMDone(r, "blank")
           \/ LLMDone(r, "text") /\ sent' = sent + 1
           \/ \E e \in ReviewResults : ReviewDone(r, e) /\ (e = "null" \/ sent' = sent + 1))
          /\ settings'.currentRound = settings'.rounds
          => ~settings'.running]_vars

\* ---- C6 ------------------------------------------------------------------
\* A run in automatic mode in which every LLM call returns a text: Start is
\* clicked when no activation is outstanding, Stop is not clicked, and
\* sendAsUserAndGenerate resolves.
InitAuto == Init /\ settings.mode = "auto"

NextAuto ==
    \/ StartClicked /\ act = EmptyBag
    \/ GenerationEnded
    \/ \E r \in Activations : WaitDone(r)
    \/ \E r \in Activations : LLMDone(r, "text")
    \/ \E r \in Activations : SendDone(r, TRUE)

SpecAuto == InitAuto /\ [][NextAuto]_vars

\* the engine state, without the notifications
engine == <<settings, isProcessing, currentAbortController, aborted, act, sent>>

\* C6: in such a run a successful start puts round 1 in flight; round k >= 2
\* begins only in the handler of GENERATION_ENDED, when no round is in flight
\* and k-1 turns are handed off; once settings.rounds turns are handed off
\* the director is idle and GENERATION_ENDED changes no state.
C6_RoundsFollowTriggers ==
    [][/\ (StartClicked /\ toasts' # << >> /\ toasts'[1] = "started") =>
             /\ settings'.currentRound = 1
             /\ isProcessing'
             /\ NumInFlight' = 1
       /\ (settings'.currentRound >= 2 /\ settings'.currentRound # settings.currentRound) =>
             /\ GenerationEnded
             /\ NumInFlight = 0
             /\ sent = settings'.currentRound - 1
             /\ NumInFlight' = 1
       /\ (sent' = settings'.rounds) => (~settings'.running /\ ~isProcessing')
       /\ (sent = settings.rounds /\ GenerationEnded) => UNCHANGED engine]_vars

\* all the rounds of the largest configuration are handed off
C6_Witness ==
    /\ settings.rounds = MaxRounds
    /\ sent = MaxRounds
    /\ settings.currentRound = MaxRounds
    /\ ~settings.running

\* ---- C8 ------------------------------------------------------------------
\* the handler of GENERATION_ENDED would change nothing in this state
TriggerDropped == onGenerationEnded(State) = State

\* C8: when the turn of the last round (currentRound >= rounds) is handed
\* off, running is false after the hand-off step and GENERATION_ENDED would
\* be dropped; while running is false GENERATION_ENDED changes no state.
C8_LastHandOffStopsFirst ==
    [][/\ (sent' = sent + 1 /\ settings.currentRound >= settings.rounds) =>
             (~settings'.running /\ TriggerDropped')
       /\ (~settings.running /\ GenerationEnded) => UNCHANGED engine]_vars

\* the turn of the last round is handed off and its send is pending
C8_Witness ==
    /\ CopiesIn(Sending, act) >= 1
    /\ sent >= 1
    /\ settings.currentRound = settings.rounds
    /\ ~settings.running
    /\ toasts = <<"stopped">>
    /\ NumInFlight = 0

\* ---- C9 ------------------------------------------------------------------
\* a precondition of start is unmet
StartPreconditionUnmet ==
    \/ ~settings.enabled
    \/ settings.preset # "ok"
    \/ settings.connectionMode = "direct" /\ Trim(settings.apiUrl) = ""
    \/ settings.connectionMode = "direct" /\ Trim(settings.model) = ""
    \/ settings.connectionMode = "proxy" /\ Trim(settings.model) = ""

\* C9: a click on Start with an unmet precondition changes none of running,
\* currentRound, isProcessing, starts no round and makes no LLM call.
C9_RefusedStartChangesNothing ==
    [][(StartClicked /\ StartPreconditionUnmet) => UNCHANGED engine]_vars

\* a start was refused for the missing model of the proxy transport
C9_Witness ==
    /\ StartPreconditionUnmet
    /\ settings.connectionMode = "proxy"
    /\ toasts = <<"no model name">>

\* ---- C10 -----------------------------------------------------------------
\* C10: after a click on Stop, in any state, running and isProcessing are
\* false, no AbortController is current, the signal of every LLM call in
\* flight has fired, and currentRound and rounds are unchanged.
C10_StopResets ==
    [][StopClicked =>
          /\ ~settings'.running
          /\ ~isProcessing'
          /\ currentAbortController' = 0
          /\ \A r \in BagToSet(act') : r.pc = "llm" => r.sig \in aborted'
          /\ settings'.currentRound = settings.currentRound
          /\ settings'.rounds = settings.rounds]_vars

\* Stop was clicked while an LLM call was in flight
C10_Witness ==
    /\ ~settings.running
    /\ ~isProcessing
    /\ \E r \in Activations : r.pc = "llm" /\ r.stopped /\ r.cancelledBy = "stop"

\* ---- C11 -----------------------------------------------------------------
\* an activation without the mark of the Stop click
ForgetStop(r) == [r EXCEPT !.stopped = FALSE]

\* C11: a click on Stop while running is false changes none of settings,
\* isProcessing, the current AbortController, the fired signals, the
\* activations and the turns handed off, and shows no notification; a click on
\* Stop while running is true shows the one notification "stopped" and leaves
\* running false, so that a second click is of the first kind.  In every
\* state where running is false stopDirector returns the state it was given,
\* with no notification.
C11_StopIdempotent ==
    [][/\ ~settings.running => stopDirector(State, "stop") = State
       /\ StopClicked =>
             /\ ~settings'.running
             /\ toasts' = IF settings.running THEN <<"stopped">> ELSE << >>
             /\ ~settings.running =>
                   /\ settings' = settings
                   /\ isProcessing' = isProcessing
                   /\ currentAbortController' = currentAbortController
                   /\ aborted' = aborted
                   /\ sent' = sent
                   /\ BagOfAll(ForgetStop, act') = BagOfAll(ForgetStop, act)]_vars

\* Stop was clicked after a round had already stopped the director and
\* cancelled the call of another round
C11_Witness ==
    /\ ~settings.running
    /\ toasts = << >>
    /\ logged = << >>
    /\ \E r \in Activations : r.pc = "llm" /\ r.cancelledBy = "round" /\ r.stopped

\* ---- C12 -----------------------------------------------------------------
\* C12: when the LLM call of a round returns an empty or blank text while
\* currentRound < rounds, the step ends with isProcessing false, currentRound
\* unchanged (it was incremented when the round began), no turn handed to
\* sendAsUserAndGenerate, the warning "empty" as the only notification (no
\* error) and running true.
C12_EmptyResponseKeepsRunning ==
    [][\A r \in Activations :
          (LLMDone(r, "blank") /\ settings.currentRound < settings.rounds) =>
              /\ ~isProcessing'
              /\ settings'.currentRound = settings.currentRound
              /\ settings.currentRound >= 1
              /\ sent' = sent
              /\ toasts' = <<"empty">>
              /\ settings'.running]_vars

\* a round that is not the last has ended on an empty response
C12_Witness ==
    /\ toasts = <<"empty">>
    /\ settings.running
    /\ ~isProcessing
    /\ settings.currentRound >= 1
    /\ settings.currentRound < settings.rounds
    /\ act = EmptyBag

\* ---- C13 -----------------------------------------------------------------
\* C13: when showPreviewPopup returns null (Skip), no turn is handed to
\* sendAsUserAndGenerate, currentRound is unchanged (it was incremented when
\* the round began), isProcessing is false after the step, and running is
\* false after the step if currentRound >= rounds (with the report
\* "stopped" if it was running) and unchanged otherwise.
C13_SkipConsumesRound ==
    [][\A r \in Activations :
          ReviewDone(r, "null") =>
              /\ sent' = sent
              /\ settings'.currentRound = settings.currentRound
              /\ settings.currentRound >= 1
              /\ ~isProcessing'
              /\ logged' = <<"skipped">>
              /\ IF settings.currentRound >= settings.rounds
                 THEN /\ ~settings'.running
                      /\ toasts' = IF settings.running THEN <<"stopped">> ELSE << >>
                 ELSE /\ settings'.running = settings.running
                      /\ toasts' = << >>]_vars

\* the review of the last round was skipped and the director stopped
C13_Witness ==
    /\ logged = <<"skipped">>
    /\ toasts = <<"stopped">>
    /\ ~settings.running
    /\ ~isProcessing
    /\ settings.currentRound = settings.rounds
    /\ sent < settings.currentRound

\* ---- C14 -----------------------------------------------------------------
\* the LLM calls that have not settled
CallsInFlight ==
    LET S == {r \in Activations : r.pc = "llm"}
    IN BagCardinality([r \in S |-> act[r]])

\* C14: a handler run that reports an error (handleError, reached from the
\* catch block for every error but AbortError) ends with running and
\* isProcessing false; and while running is false no step other than a click
\* on Start makes an LLM call, starts a round or sets running.
C14_ErrorStopsWithoutRetry ==
    [][/\ (\E i \in DOMAIN toasts' : toasts'[i] = "error") =>
             (~settings'.running /\ ~isProcessing')
       /\ (~settings.running /\ ~StartClicked) =>
             /\ ~settings'.running
             /\ settings'.currentRound = settings.currentRound
             /\ CallsInFlight' <= CallsInFlight
             /\ BagCardinality(act') <= BagCardinality(act)]_vars

\* the LLM call of a running director has failed
C14_Witness ==
    /\ toasts = <<"error", "stopped">>
    /\ ~settings.running
    /\ ~isProcessing
    /\ sent < settings.currentRound

\* ---- C15 -----------------------------------------------------------------
\* C15: when the LLM call of a round rejects with AbortError, the round
\* returns in that step: the line "aborted" is logged, no error notification
\* is shown and no turn is handed to sendAsUserAndGenerate.
C15_AbortIsQuiet ==
    [][\A r \in Activations :
          LLMDone(r, "AbortError") =>
              /\ logged' = <<"aborted">>
              /\ \A i \in DOMAIN toasts' : toasts'[i] # "error"
              /\ sent' = sent
              /\ BagCardinality(act') = BagCardinality(act) - 1]_vars

\* the call of a round cancelled by the Stop button has settled
C15_Witness ==
    /\ logged = <<"aborted">>
    /\ toasts = << >>
    /\ ~settings.running
    /\ act = EmptyBag
    /\ settings.currentRound >= 1

\* ---- C16 -----------------------------------------------------------------
\* C16: in every reachable state isProcessing is true exactly when some
\* activation of runDirectorRound is between its guard and its hand-off or
\* exit.
C16_GeneratingIffInFlight == isProcessing <=> (NumInFlight >= 1)

\* ---- C17 -----------------------------------------------------------------
\* C17: after the initialisation running is false and currentRound is 0,
\* whatever the persisted settings were; and from then on, while running is
\* false, no step other than a click on Start starts a round or sets running.
C17_InitResets ==
    /\ ~settings.running /\ settings.currentRound = 0
    /\ [][(~settings.running /\ ~StartClicked) =>
             /\ ~settings'.running
             /\ BagCardinality(act') <= BagCardinality(act)]_vars

\* ---- C18 -----------------------------------------------------------------
\* One run in automatic mode: Start is clicked while the director is idle,
\* Stop is not clicked, every LLM call returns a text and the send resolves.
\* The readiness wait resolves within its timeout, the LLM call settles
\* within the ceiling of its signal, and the host ends the generation of
\* every turn handed to it with GENERATION_ENDED.
NextRun ==
    \/ StartClicked /\ ~settings.running /\ act = EmptyBag
    \/ GenerationEnded
    \/ \E r \in Activations : WaitDone(r)
    \/ \E r \in Activations : LLMDone(r, "text")
    \/ \E r \in Activations : SendDone(r, TRUE)

SpecRun ==
    /\ InitAuto
    /\ [][NextRun]_vars
    /\ WF_vars(GenerationEnded)
    /\ WF_vars(\E r \in Activations : WaitDone(r))
    /\ WF_vars(\E r \in Activations : LLMDone(r, "text"))
    /\ WF_vars(\E r \in Activations : SendDone(r, TRUE))

\* the director is idle after all its rounds
RunComplete ==
    /\ ~settings.running
    /\ ~isProcessing
    /\ NumInFlight = 0
    /\ settings.currentRound = settings.rounds
    /\ sent = settings.rounds

\* C18: in such a run a started director eventually is idle with
\* currentRound = rounds after rounds hand-offs, and the k-th hand-off is the
\* one of round k.
C18_RunCompletes ==
    /\ [][sent' = sent + 1 => settings'.currentRound = sent']_vars
    /\ settings.running ~> RunComplete

\* a run of at least two rounds is complete and its last send has resolved
C18_Witness ==
    /\ RunComplete
    /\ settings.rounds >= 2
    /\ act = EmptyBag
    /\ toasts = << >>

\* ---- C19 -----------------------------------------------------------------
\* The engine with one round outstanding at a time: Start is clicked when no
\* activation is outstanding.  The server may never answer: only the timers
\* are fair (the ceiling timeout of the derived signal, the timeout of the
\* readiness wait) and the delivery of the rejection after abort().
NextCalls ==
    \/ StartClicked /\ act = EmptyBag
    \/ StopClicked
    \/ GenerationEnded
    \/ \E r \in Activations : WaitDone(r)
    \/ \E r \in Activations, o \in LLMResults : LLMDone(r, o)
    \/ \E r \in Activations, e \in ReviewResults : ReviewDone(r, e)
    \/ \E r \in Activations, ok \in BOOLEAN : SendDone(r, ok)

SpecCalls ==
    /\ Init
    /\ [][NextCalls]_vars
    /\ WF_vars(\E r \in Activations : WaitDone(r))
    /\ WF_vars(\E r \in Activations : LLMDone(r, "TimeoutError"))
    /\ WF_vars(\E r \in Activations : LLMDone(r, "AbortError"))

HandledAsCancellation ==
    /\ logged' = <<"aborted">>
    /\ \A i \in DOMAIN toasts' : toasts'[i] # "error"

\* C20 as claimed: when the derived signal of an LLM call has fired, through
\* the abort() of the controller or through the ceiling timeout, the
\* rejection is handled as a cancellation: it is logged and no error is
\* shown.
C20_FiredSignalIsCancellation ==
    [][\A r \in Activations, o \in {"AbortError", "TimeoutError"} :
          LLMDone(r, o) => HandledAsCancellation]_vars

\* C20 amended: the AbortError of the abort() of the controller is handled
\* as a cancellation; the TimeoutError of the ceiling timeout is handled as
\* the other failures: handleError shows an error and logs it, the director
\* stops and no turn is handed off.
C20_AbortQuietTimeoutFails ==
    [][\A r \in Activations :
          /\ LLMDone(r, "AbortError") => (r.sig \in aborted /\ HandledAsCancellation)
          /\ LLMDone(r, "TimeoutError") =>
                /\ r.sig \notin aborted
                /\ toasts' # << >> /\ toasts'[1] = "error"
                /\ logged' = <<"TimeoutError">>
                /\ ~settings'.running
                /\ ~isProcessing'
                /\ sent' = sent]_vars

\* the ceiling timeout of a call has fired while the director was running
C20_Witness ==
    /\ logged = <<"TimeoutError">>
    /\ toasts = <<"error", "stopped">>
    /\ ~settings.running

\* ---- C21 -----------------------------------------------------------------
\* longest block list of a preset
MaxBlocks == 2

\* the blocks of a preset: the built-in ones, whose content is derived, the
\* instruction and custom ones with their own content, and a block of no
\* known id that is not custom
Block(id, type, enabled, content, tagName) ==
    [id |-> id, type |-> type, enabled |-> enabled, content |-> content, tagName |-> tagName]

Blocks ==
    {Block(id, "fixed", TRUE, << >>, t) :
        id \in {"system_prompt", "plot_outline", "chat_history"},
        t \in {<< >>, <<" ">>, <<" ", "t">>}}
    \cup {Block("instruction", "fixed", TRUE, c, t) :
        c \in {<< >>, <<" ", "\n">>, <<" ", "i">>}, t \in {<< >>, <<"t">>}}
    \cup {Block("custom_1", "custom", e, <<"c">>, t) : e \in BOOLEAN, t \in {<< >>, <<"t", " ">>}}
    \cup {Block("custom_2", "fixed", TRUE, <<"x">>, <<"t">>),
          Block("instruction", "fixed", FALSE, <<"i">>, <<"t">>)}

BlockLists == UNION {[1..n -> Blocks] : n \in 0..MaxBlocks}

\* a turn of the chat
Turn(is_user, is_system, name, mes) ==
    [is_user |-> is_user, is_system |-> is_system, name |-> name, mes |-> mes]

\* the arguments of buildMessages: the settings it reads, the current preset
\* with its block list, the chat
BuildArgs ==
    {[s |-> [outlineEnabled |-> oe, outline |-> <<"o">>, currentRound |-> 1,
             outlinePromptRounds |-> 999, contextLength |-> 20],
      preset |-> [system_prompt |-> sp, chatHistoryMode |-> m],
      blocks |-> bs, chat |-> ch] :
        oe \in BOOLEAN, sp \in {<< >>, <<"s">>}, m \in {"text", "role"},
        bs \in BlockLists, ch \in {<< >>, <<Turn(TRUE, FALSE, << >>, <<"1">>)>>}}

InitBuild ==
    /\ EngineIdle
    /\ \E a \in BuildArgs : call = [fn |-> "buildMessages", arg |-> a]

NextBuild == call.fn = "buildMessages" /\ Returns(buildMessages(call.arg))

SpecBuild == InitBuild /\ [][NextBuild]_vars

\* the bodies that survive, each in its tag, in the order of the blocks
Surviving(a) ==
    LET Kept(b) == b.enabled /\ ~IsBlank(blockContent(b, a))
        kept == SelectSeq(a.blocks, Kept)
        T(b) == TrimText(b.tagName)
    IN [i \in DOMAIN kept |->
          IF T(kept[i]) = << >> THEN blockContent(kept[i], a)
          ELSE <<"<">> \o T(kept[i]) \o <<">", "\n">> \o blockContent(kept[i], a)
               \o <<"\n", "</">> \o T(kept[i]) \o <<">">>]

OutlineRounds == (-1..(MaxRounds + 1)) \cup {999}

\* the settings the two outline decisions read; currentRound is the round
\* that runs
OutlineSettings ==
    [outlineEnabled : BOOLEAN, outline : {<< >>, <<" ">>, <<"o", " ">>},
     currentRound : 0..MaxRounds, outlinePromptRounds : OutlineRounds,
     outlineInjectRounds : OutlineRounds, contextLength : {20}]

\* the prompt of a preset whose only block is the plot_outline block, and the
\* outgoing text of a round
OutlineCalls ==
    {[fn |-> "buildMessages",
      arg |-> [s |-> s, preset |-> [system_prompt |-> <<"s">>, chatHistoryMode |-> "text"],
               blocks |-> <<Block("plot_outline", "fixed", TRUE, << >>, << >>)>>,
               chat |-> << >>]] : s \in OutlineSettings}
    \cup {[fn |-> "injectOutline", arg |-> [s |-> s, finalText |-> <<"d">>]] :
             s \in OutlineSettings}

InitOutline == EngineIdle /\ call \in OutlineCalls

NextOutline ==
    \/ call.fn = "buildMessages" /\ Returns(buildMessages(call.arg))
    \/ call.fn = "injectOutline" /\ Returns(injectOutline(call.arg.s, call.arg.finalText))

SpecOutline == InitOutline /\ [][NextOutline]_vars

\* C22: the plot_outline block puts the outline in the prompt of round r
\* (the currentRound the call reads) exactly when outlineEnabled is set, the
\* outline is not blank and r is below outlinePromptRounds, the value 0
\* standing for no cutoff (999); otherwise the block contributes nothing.
C22_OutlineInPrompt ==
    (Returned /\ call.fn = "buildMessages") =>
        LET s == call.arg.s
            allowed == /\ s.outlineEnabled
                       /\ \E i \in DOMAIN s.outline : s.outline[i] \notin WhiteSpace
                       /\ \/ s.outlinePromptRounds = 0 /\ s.currentRound < 999
                          \/ s.outlinePromptRounds # 0 /\ s.currentRound < s.outlinePromptRounds
        IN call.ret[1].content = IF allowed THEN s.outline ELSE << >>

\* the outline is in the prompt of the last round below the cutoff
C22_Witness ==
    /\ Returned
    /\ call.fn = "buildMessages"
    /\ call.arg.s.currentRound = 2
    /\ call.arg.s.outlinePromptRounds = 3
    /\ call.ret[1].content = <<"o", " ">>

\* ---- C23 -----------------------------------------------------------------
\* C23: the outline is put in front of the outgoing text of round r exactly
\* when outlineEnabled is set, the outline is not blank, outlineInjectRounds
\* > 0 and r <= outlineInjectRounds; the outgoing text is the same for every
\* value of outlinePromptRounds, and the prompt is the same for every value of
\* outlineInjectRounds.
C23_OutlineInOutgoingText ==
    /\ (Returned /\ call.fn = "injectOutline") =>
          LET s == call.arg.s
              open == /\ s.outlineEnabled
                      /\ \E i \in DOMAIN s.outline : s.outline[i] \notin WhiteSpace
                      /\ s.outlineInjectRounds > 0
                      /\ s.currentRound <= s.outlineInjectRounds
          IN /\ open <=> (call.ret # call.arg.finalText)
             /\ open => call.ret = <<"[Plot Outline]", "\n", "o", "\n", "\n",
                                     "[Direction]", "\n">> \o call.arg.finalText
             /\ \A c \in OutlineRounds :
                   injectOutline([s EXCEPT !.outlinePromptRounds = c], call.arg.finalText)
                       = call.ret
    /\ (Returned /\ call.fn = "buildMessages") =>
          \A k \in OutlineRounds :
              buildMessages([call.arg EXCEPT !.s.outlineInjectRounds = k]) = call.ret

\* the outline is in front of the outgoing text of a round that is past the
\* cutoff of the prompt
C23_Witness ==
    /\ Returned
    /\ call.fn = "injectOutline"
    /\ call.arg.s.currentRound = 2
    /\ call.arg.s.outlineInjectRounds = 2
    /\ call.arg.s.outlinePromptRounds = 1
    /\ call.ret # call.arg.finalText

\* ---- C24 -----------------------------------------------------------------
MaxTurns == 3

\* what the context length field can hold: parseInt(value) || 20
ContextLengths == (-1..(MaxTurns + 1)) \ {0}

\* the i-th turn of a chat says i
Said(i) == <<"1", "2", "3", "4", "5", "6">>[i]

\* chats of up to MaxTurns turns: a user turn, a character turn with a name,
\* a system notice, a user-authored turn flagged is_system
Chats ==
    LET Kinds == {<<TRUE, FALSE, << >>>>, <<FALSE, FALSE, <<"A">>>>,
                  <<FALSE, TRUE, << >>>>, <<TRUE, TRUE, << >>>>}
    IN UNION {{[i \in 1..n |-> Turn(k[i][1], k[i][2], k[i][3], <<Said(i)>>)] :
                  k \in [1..n -> Kinds]} : n \in 0..MaxTurns}

InitHistory ==
    /\ EngineIdle
    /\ \E ch \in Chats, n \in ContextLengths, m \in {"text", "role"} :
          call = [fn |-> "buildChatHistory",
                  arg |-> [chat |-> ch, s |-> [contextLength |-> n], mode |-> m]]

NextHistory ==
    /\ call.fn = "buildChatHistory"
    /\ Returns(buildChatHistory(call.arg.chat, call.arg.s, call.arg.mode))

SpecHistory == InitHistory /\ [][NextHistory]_vars

\* the positions of the turns whose text is in a body
InBody(body, chat) == {i \in DOMAIN chat : \E j \in DOMAIN body : body[j] = Said(i)}

\* C24: with context length N the body of chat_history holds, in the order of
\* the conversation, the turns among the last N that are not system notices
\* of another author than the user, and never more than N turns.
C24_LastNTurns ==
    Returned =>
        LET chat == call.arg.chat
            N == call.arg.s.contextLength
            lastN == {i \in DOMAIN chat : i > Len(chat) - N}
            kept == {i \in lastN : ~(chat[i].is_system /\ ~chat[i].is_user)}
            Keep(msg) == \E i \in kept : chat[i] = msg
        IN /\ InBody(call.ret, chat) = kept
           /\ Cardinality(InBody(call.ret, chat)) <= N
           /\ call.ret = TrimText(HistoryLines(SelectSeq(chat, Keep), call.arg.mode))

\* ---- C25 -----------------------------------------------------------------
MaxRules == 2

Rule(enabled, pattern, flags, replacement) ==
    [enabled |-> enabled, pattern |-> pattern, flags |-> flags, replacement |-> replacement]

\* a -> b, b -> c (every match), a -> nothing (first match), a pattern that
\* does not compile, a disabled rule, a rule without pattern
Rules ==
    {Rule(TRUE, <<"a">>, "g", <<"b">>), Rule(TRUE, <<"b">>, "", <<"c">>),
     Rule(TRUE, <<"a">>, "m", << >>), Rule(TRUE, <<"(">>, "g", <<"x">>),
     Rule(FALSE, <<"a">>, "g", <<"x">>), Rule(TRUE, << >>, "g", <<"x">>)}

\* up to MaxRules rules, on no message, on one, on two
InitRegex ==
    /\ EngineIdle
    /\ \E ms \in {<< >>, <<[role |-> "user", content |-> <<"a", "b", "a">>]>>,
                   <<[role |-> "system", content |-> <<"b">>],
                     [role |-> "user", content |-> <<"d", "a">>]>>},
          rs \in UNION {[1..n -> Rules] : n \in 0..MaxRules} :
          call = [fn |-> "applyRegexRules", arg |-> [messages |-> ms, rules |-> rs]]

\* applyRegexRules returns, its warnings are in the log
NextRegex ==
    /\ call.fn = "applyRegexRules"
    /\ ~Returned
    /\ call' = [fn |-> call.fn, arg |-> call.arg,
                ret |-> applyRegexRules(call.arg.messages, call.arg.rules)]
    /\ logged' = warnings(activeRules(call.arg.rules))
    /\ UNCHANGED <<settings, isProcessing, currentAbortController, aborted, act, sent, toasts>>

SpecRegex == InitRegex /\ [][NextRegex]_vars

\* the content after the first k rules of the list, a rule being applied when
\* it is enabled, has a pattern and compiles
RECURSIVE After(_, _, _)
After(content, rules, k) ==
    IF k = 0 THEN content
    ELSE LET prev == After(content, rules, k - 1)
             r == rules[k]
         IN IF r.enabled /\ r.pattern # << >> /\ r.pattern # <<"(">>
            THEN replace(prev, [source |-> r.pattern[1], global |-> r.flags \in {"", "g"}],
                         r.replacement)
            ELSE prev

\* C25: applyRegexRules returns as many messages, with the same roles in the
\* same order; the content of each is the result of the rules that are
\* enabled, have a pattern and compile, applied in the order of the list,
\* each to the output of the one before; every enabled rule whose pattern
\* does not compile is skipped with one warning.
C25_RulesInOrder ==
    Returned =>
        LET ms == call.arg.messages
            rs == call.arg.rules
        IN /\ Len(call.ret) = Len(ms)
           /\ \A i \in DOMAIN ms :
                 /\ call.ret[i].role = ms[i].role
                 /\ call.ret[i].content = After(ms[i].content, rs, Len(rs))
           /\ Len(logged) = Cardinality({k \in DOMAIN rs :
                                 rs[k].enabled /\ rs[k].pattern = <<"(">>})

\* a -> b then b -> c: every a and b of the input is a c
C25_Witness ==
    /\ Returned
    /\ call.fn = "applyRegexRules"
    /\ Len(call.arg.rules) = 2
    /\ call.arg.rules[1].pattern = <<"a">>
    /\ call.arg.rules[2].pattern = <<"b">>
    /\ call.ret = <<[role |-> "user", content |-> <<"c", "c", "c">>]>>

\* ---- C26 -----------------------------------------------------------------
MaxMsgs == 3

\* lists of up to MaxMsgs messages of the three roles; the i-th message says
\* i or nothing
MessageLists ==
    UNION {{[i \in 1..n |-> [role |-> r[i], content |-> IF e[i] THEN << >> ELSE <<Said(i)>>]] :
               r \in [1..n -> {"system", "user", "assistant"}], e \in [1..n -> BOOLEAN]} :
           n \in 0..MaxMsgs}

InitClaude ==
    /\ EngineIdle
    /\ \E ms \in MessageLists : call = [fn |-> "generateDirectClaude", arg |-> ms]

NextClaude == call.fn = "generateDirectClaude" /\ Returns(generateDirectClaude(call.arg))

SpecClaude == InitClaude /\ [][NextClaude]_vars

Run(chat, i) == 1 + Cardinality({k \in 2..i : chat[k].role # chat[k - 1].role})

\* the contents of the j-th run of chat, in order
RunContents(chat, j) ==
    LET at == SelectSeq([i \in 1..Len(chat) |-> i], LAMBDA i : Run(chat, i) = j)
    IN [n \in 1..Len(at) |-> chat[at[n]].content]

\* C27: the Claude adapter sends no message of role system; the system field
\* is the contents of the system messages in input order joined by a blank
\* line, and is left out when that text is empty; the messages that are not
\* system messages keep their order, each run of one role being one message
\* whose content is the contents of the run joined by a blank line; the
\* placeholder user message is in front exactly when the first of these is an
\* assistant message; the input list holds after the call what it held before.
C27_SystemLiftedRestMerged ==
    Returned =>
        LET in == call.arg
            out == call.ret.messages
            sys == SelectSeq(in, LAMBDA m : m.role = "system")
            sysText == Join([i \in 1..Len(sys) |-> sys[i].content], <<"\n", "\n">>)
            chat == SelectSeq(in, LAMBDA m : m.role # "system")
            runs == IF chat = << >> THEN 0 ELSE Run(chat, Len(chat))
            holder == chat # << >> /\ chat[1].role = "assistant"
            body == IF holder THEN Tail(out) ELSE out
        IN /\ \A i \in DOMAIN out : out[i].role # "system"
           /\ IF sysText = << >> THEN "system" \notin DOMAIN call.ret
              ELSE "system" \in DOMAIN call.ret /\ call.ret.system = sysText
           /\ sys = << >> => "system" \notin DOMAIN call.ret
           /\ Len(out) = runs + (IF holder THEN 1 ELSE 0)
           /\ holder => out[1] = [role |-> "user", content |-> <<"[Conversation start]">>]
           /\ \A j \in 1..runs :
                 /\ \E i \in DOMAIN chat : Run(chat, i) = j /\ body[j].role = chat[i].role
                 /\ body[j].content = Join(RunContents(chat, j), <<"\n", "\n">>)
           /\ call.ret.input = in

\* system, user, user: the system content in the system field, both user
\* contents in one message, the input as it was
C27_Witness ==
    /\ Returned
    /\ call.arg = <<[role |-> "system", content |-> <<"1">>],
                    [role |-> "user", content |-> <<"2">>],
                    [role |-> "user", content |-> <<"3">>]>>
    /\ call.ret = [messages |-> <<[role |-> "user", content |-> <<"2", "\n", "\n", "3">>]>>,
                   system |-> <<"1">>, input |-> call.arg]

\* ---- C28 -----------------------------------------------------------------
\* the status codes of the responses that are not a success
Statuses == {401, 403, 404, 429, 500, 502, 504}

\* success responses with their data, responses of another status,
\* rejections of fetch
Responses ==
    LET Data ==
            {[string |-> TRUE, value |-> v, choices |-> << >>, content |-> << >>] :
                v \in {<< >>, <<"s">>}}
            \cup {[string |-> FALSE, value |-> << >>, choices |-> ch, content |-> co] :
                     ch \in {<< >>} \cup {<<[content |-> c, text |-> t]>> :
                                             c \in {<< >>, <<"m">>}, t \in {<< >>, <<"t">>}},
                     co \in {<< >>, <<[text |-> << >>]>>, <<[text |-> <<"c">>]>>}}
        NoData == [string |-> FALSE, value |-> << >>, choices |-> << >>, content |-> << >>]
    IN
    {[status |-> 200, body |-> << >>, data |-> d] : d \in Data}
    \cup {[status |-> st, body |-> b, data |-> NoData] :
             st \in Statuses, b \in {<< >>, <<"x">>, <<"401">>, <<"gateway", "timeout">>}}
    \cup {[status |-> 0, body |-> b, data |-> NoData] :
             b \in {<<"Failed to fetch">>, <<"fetch failed">>}}

InitTransport ==
    /\ EngineIdle
    /\ \E fn \in {"generateViaProxy", "generateDirectOpenAI", "generateDirectClaude"},
          r \in Responses : call = [fn |-> fn, arg |-> r]

\* a transport returns or throws; the catch block gives the error to
\* handleError, which chooses the message of the notification
NextTransport ==
    \/ /\ call.fn = "generateViaProxy"
       /\ Returns(generateViaProxy(call.arg))
    \/ /\ call.fn = "generateDirectOpenAI"
       /\ Returns(generateDirectOpenAI(call.arg))
    \/ /\ call.fn = "generateDirectClaude"
       /\ Returns(generateDirectClaude_Response(call.arg))
    \/ /\ Returned
       /\ call.fn # "handleError"
       /\ "error" \in DOMAIN call.ret
       /\ call' = [fn |-> "handleError", arg |-> call.ret.error, from |-> call.arg,
                   ret |-> friendlyMsg(call.ret.error)]
       /\ UNCHANGED <<settings, isProcessing, currentAbortController, aborted, act, sent,
                      toasts, logged>>

SpecTransport == InitTransport /\ [][NextTransport]_vars

\* C28: generateViaProxy decodes a success response as the bare string when
\* the data is a string; else from choices[0] when there is one
\* (message.content, else text); else from content[0].text when there is a
\* content[0]; else it throws the format error.
C28_ProxyDecodeOrder ==
    (Returned /\ call.fn = "generateViaProxy" /\ call.arg.status = 200) =>
        LET data == call.arg.data
        IN IF data.string THEN call.ret = [text |-> data.value]
           ELSE IF data.choices # << >>
                THEN IF data.choices[1].content # << >>
                     THEN call.ret = [text |-> data.choices[1].content]
                     ELSE call.ret = [text |-> data.choices[1].text]
           ELSE IF data.content # << >>
                THEN call.ret = [text |-> data.content[1].text]
           ELSE /\ DOMAIN call.ret = {"error"}
                /\ call.ret.error.message = <<"Unexpected proxy response format">>

\* data with both shapes: the text of choices[0] is returned, not that of
\* content[0]
C28_Witness ==
    /\ Returned
    /\ call.fn = "generateViaProxy"
    /\ call.arg.data.choices = <<[content |-> << >>, text |-> <<"t">>]>>
    /\ call.arg.data.content = <<[text |-> <<"c">>]>>
    /\ call.ret = [text |-> <<"t">>]

\* ---- C29 -----------------------------------------------------------------
\* the data has the shape the path decodes, without the text it reads there
LacksText(fn, data) ==
    /\ ~data.string
    /\ CASE fn = "generateDirectOpenAI" ->
                data.choices # << >> /\ data.choices[1].content = << >>
         [] fn = "generateDirectClaude" ->
                data.content # << >> /\ data.content[1].text = << >>
         [] OTHER ->
                \/ /\ data.choices # << >>
                   /\ data.choices[1].content = << >>
                   /\ data.choices[1].text = << >>
                \/ /\ data.choices = << >>
                   /\ data.content # << >>
                   /\ data.content[1].text = << >>

\* C29: on each of the three paths a success response whose data has the
\* shape the path decodes but not the text it reads there ends in an error
\* that is not the error of a failed request, and never in a text.
C29_MissingTextIsMalformed ==
    (Returned /\ call.fn # "handleError" /\ call.arg.status = 200
       /\ LacksText(call.fn, call.arg.data)) =>
        /\ DOMAIN call.ret = {"error"}
        /\ \A r \in Responses, name \in {"Proxy", "OpenAI", "Claude"} :
              r.status # 200 => call.ret # failed(name, r)

\* ---- C30 -----------------------------------------------------------------
\* C30: a response of a status that is not a success ends, on each path, in
\* an error whose message holds the status code and the body, and the message
\* handleError shows is the one of the status code: 401, 403, 429, server for
\* 500..599, and the message of the error itself for any other code.
C30_StatusDecidesCategory ==
    /\ (Returned /\ call.fn # "handleError" /\ call.arg.status \in Statuses) =>
          /\ DOMAIN call.ret = {"error"}
          /\ includes(call.ret.error.message, ToString(call.arg.status))
          /\ \E n \in 1..Len(call.ret.error.message) :
                SubSeq(call.ret.error.message, n + 1, Len(call.ret.error.message))
                    = call.arg.body
    /\ (call.fn = "handleError" /\ call.from.status \in Statuses) =>
          call.ret = CASE call.from.status = 401 -> "API_401"
                       [] call.from.status = 403 -> "API_403"
                       [] call.from.status = 429 -> "API_429"
                       [] call.from.status \in 500..599 -> "API_500"
                       [] OTHER -> "raw"

\* ---- C31 -----------------------------------------------------------------
MaxChunks == 3

\* 1: two frames, the sentinel, a frame behind it; 2: a frame, a frame that
\* is not JSON, a frame without content, an empty line, a frame; 3: a frame
\* ended by \r\n, a line that is no data line, a last frame without its end
\* of line; 4: "data:" without the blank; 5: nothing
Streams ==
    LET D(x) == <<"data:", " ", x, "\n">>
    IN <<D("{a}") \o D("{b}") \o D("[DONE]") \o D("{a}"),
         D("{b}") \o D("{") \o D("{}") \o <<"\n">> \o D("{a}"),
         <<"data:", " ", "{a}", "\r", "\n", "event:", "x", "\n", "data:", " ", "{b}">>,
         <<"data:", "{a}", "\n", "data:", " ", " ", "{b}", " ", "\n">>,
         << >>>>

\* the stream cut into at most MaxChunks chunks at the places c
Chunked(stream, c) ==
    [k \in 1..(Len(c) + 1) |->
        SubSeq(stream, (IF k = 1 THEN 0 ELSE c[k - 1]) + 1,
               IF k > Len(c) THEN Len(stream) ELSE c[k])]

InitStream ==
    /\ EngineIdle
    /\ \E n \in DOMAIN Streams :
       \E c \in [1..(MaxChunks - 1) -> 0..Len(Streams[n])] :
          /\ \A k \in 1..(MaxChunks - 2) : c[k] <= c[k + 1]
          /\ call = [fn |-> "readSSEStream",
                     arg |-> [stream |-> n, chunks |-> Chunked(Streams[n], c)]]

NextStream ==
    /\ call.fn = "readSSEStream"
    /\ Returns(readSSEStream(call.arg.chunks, << >>,
                             [fullText |-> << >>, tokens |-> << >>, done |-> FALSE]))

SpecStream == InitStream /\ [][NextStream]_vars

\* C31: readSSEStream returns the concatenation, in order, of the tokens it
\* gave to onToken; these are the contents of the frames before the sentinel
\* that parse, whatever the cut of the stream into chunks: a frame that is not
\* JSON is passed over, nothing behind the sentinel is added, and the reading
\* ends at the sentinel or at the end of the stream.
C31_StreamedText ==
    Returned =>
        LET Expected == <<<<"a", "b">>, <<"b", "a">>, <<"a">>, <<"b">>, << >>>>
            Flat == [i \in 1..Len(call.ret.tokens) |-> call.ret.tokens[i][1]]
        IN /\ call.ret.fullText = Flat
           /\ call.ret.fullText = Expected[call.arg.stream]
           /\ call.ret.done <=> (call.arg.stream = 1)

\* the second stream cut inside "data: " and inside a frame
C31_Witness ==
    /\ Returned
    /\ call.arg.stream = 2
    /\ Len(call.arg.chunks[1]) = 1
    /\ Len(call.arg.chunks[2]) = 8
    /\ call.ret.fullText = <<"b", "a">>

\* ---- C32 -----------------------------------------------------------------
\* testConnection: the summary made of what the transport returned or threw
testConnection(out) ==
    IF "text" \in DOMAIN out
    THEN [success |-> TRUE, message |-> <<"Connection OK. Response: ">> \o out.text]
    ELSE [success |-> FALSE, message |-> <<"Connection failed: ">> \o out.error.message]

\* how the transport of the connection mode can return or throw
TestOutcomes(connectionMode) ==
    LET R == {r \in Responses :
                 /\ r.status \in {0, 200, 401}
                 /\ r.body \in {<< >>, <<"fetch failed">>}
                 /\ r.data.string => r.data.value = <<"s">>
                 /\ r.data.choices = << >>
                 /\ r.data.content = << >>}
    IN IF connectionMode = "proxy" THEN {generateViaProxy(r) : r \in R}
       ELSE {generateDirectOpenAI(r) : r \in R}
            \cup {generateDirectClaude_Response(r) : r \in R}
            \cup {Error(<<"Unsupported API type">>)}

\* the click handler that would reset the round counter
TestClicked_Resets ==
    /\ call = NoCall \/ Returned
    /\ call' = [fn |-> "testConnection", arg |-> settings.connectionMode]
    /\ toasts' = <<"info">>
    /\ logged' = << >>
    /\ settings' = [settings EXCEPT !.currentRound = 0]
    /\ UNCHANGED <<isProcessing, currentAbortController, aborted, act, sent>>

\* the click handler of the test button, up to its await; the button is
\* disabled until the test is over
TestClicked ==
    /\ call = NoCall \/ Returned
    /\ call' = [fn |-> "testConnection", arg |-> settings.connectionMode]
    /\ toasts' = <<"info">>
    /\ logged' = << >>
    /\ UNCHANGED <<settings, isProcessing, currentAbortController, aborted, act, sent>>

\* the click handler after its await: the notification of the summary
TestDone ==
    /\ call.fn = "testConnection"
    /\ ~Returned
    /\ \E out \in TestOutcomes(call.arg) :
          LET result == testConnection(out)
          IN /\ call' = [fn |-> call.fn, arg |-> call.arg, ret |-> result]
             /\ toasts' = IF result.success THEN <<"success">> ELSE <<"error">>
             /\ logged' = IF result.success THEN << >> ELSE <<"Error">>
    /\ UNCHANGED <<settings, isProcessing, currentAbortController, aborted, act, sent>>

NextTest ==
    \/ NextAuto
    \/ StopClicked
    \/ TestClicked
    \/ TestDone

SpecTest == InitAuto /\ [][NextTest]_vars

\* C32: the two steps of a connection test (the click and the end of the
\* call) leave running, currentRound, isProcessing, the current
\* AbortController and the rounds in flight as they are, and the test ends in
\* a summary with success true or false, whatever the transport returned or
\* threw.
C32_TestLeavesEngine ==
    [][call' # call =>
          /\ settings' = settings
          /\ isProcessing' = isProcessing
          /\ currentAbortController' = currentAbortController
          /\ aborted' = aborted
          /\ act' = act
          /\ sent' = sent
          /\ call'.fn = "testConnection"
          /\ ("ret" \in DOMAIN call') =>
                /\ call'.ret.success \in BOOLEAN
                /\ toasts' = IF call'.ret.success THEN <<"success">> ELSE <<"error">>]_vars

\* a test has failed while a round is in its LLM call
C32_Witness ==
    /\ Returned
    /\ call.fn = "testConnection"
    /\ ~call.ret.success
    /\ settings.running
    /\ isProcessing
    /\ \E r \in BagToSet(act) : r.pc = "llm"

\* ---- C33 -----------------------------------------------------------------
\* the two timeouts of the wait, in delays of 500 ms
MaxWait == 2

\* a round is in its readiness wait
InWait == \E r \in Activations : r.pc = "wait"

\* the call variable holds the wait of the round: pc ("poll": phase 1,
\* "observe": phase 2, "returned"), the delays gone by in the phase, the FAB
\* ("absent", "idle", "loading"), the two limits, and how the wait ended
Waiting == call.fn = "waitForChatu8Complete"

WaitStep(c) ==
    /\ call' = c
    /\ UNCHANGED <<settings, isProcessing, currentAbortController, aborted, act, sent,
                   toasts, logged>>

\* waitForChatu8Complete to its first await, in the handler run that began
\* the round
WaitEnter ==
    /\ call = NoCall
    /\ InWait
    /\ \E fab \in {"absent", "idle", "loading"}, st \in 1..MaxWait, to \in 1..MaxWait :
          LET c == [fn |-> "waitForChatu8Complete", pc |-> "poll", t |-> 0, fab |-> fab,
                    chatu8StartTimeout |-> st, chatu8Timeout |-> to, how |-> ""]
          IN WaitStep(IF fab = "absent"
                      THEN [c EXCEPT !.pc = "returned", !.how = "absent"]
                      ELSE IF fab = "loading" THEN [c EXCEPT !.pc = "observe"]
                      ELSE c)

\* phase 1 after a delay(500): the test of the loop, then the class test
WaitPoll ==
    /\ Waiting
    /\ call.pc = "poll"
    /\ LET t == call.t + 1
       IN WaitStep(IF t >= call.chatu8StartTimeout
                   THEN [call EXCEPT !.t = t, !.pc = "returned", !.how = "not started"]
                   ELSE IF call.fab = "loading"
                        THEN [call EXCEPT !.t = 0, !.pc = "observe"]
                        ELSE [call EXCEPT !.t = t])

\* the timer of phase 2 that never resolves
WaitTimer_NoResolve ==
    /\ Waiting
    /\ call.pc = "observe"
    /\ call.t < call.chatu8Timeout
    /\ WaitStep([call EXCEPT !.t = @ + 1])

\* the timer of phase 2: setTimeout(..., timeoutMs) resolves
WaitTimer ==
    /\ Waiting
    /\ call.pc = "observe"
    /\ LET t == call.t + 1
       IN WaitStep(IF t >= call.chatu8Timeout
                   THEN [call EXCEPT !.t = t, !.pc = "returned", !.how = "timeout"]
                   ELSE [call EXCEPT !.t = t])

\* the owner of the FAB sets or removes the loading class; in phase 2 the
\* MutationObserver resolves when the class is removed
FabChanged ==
    /\ Waiting
    /\ call.pc \in {"poll", "observe"}
    /\ WaitStep(IF call.fab = "idle" THEN [call EXCEPT !.fab = "loading"]
                ELSE IF call.pc = "observe"
                     THEN [call EXCEPT !.fab = "idle", !.pc = "returned", !.how = "finished"]
                     ELSE [call EXCEPT !.fab = "idle"])

\* runDirectorRound after await waitForChatu8Complete
WaitReturned ==
    /\ Waiting
    /\ call.pc = "returned"
    /\ \E r \in Activations : WaitDone(r)

NextWait ==
    \/ call = NoCall /\ act = EmptyBag /\ StartClicked
    \/ Waiting /\ StopClicked
    \/ WaitEnter
    \/ WaitPoll
    \/ WaitTimer
    \/ FabChanged
    \/ WaitReturned

\* the settings with the readiness wait switched on
InitWait == InitAuto /\ settings.waitForChatu8

SpecWait ==
    /\ InitWait
    /\ [][NextWait]_vars
    /\ WF_vars(WaitEnter)
    /\ WF_vars(WaitPoll)
    /\ WF_vars(WaitTimer)
    /\ WF_vars(WaitReturned)

\* C33: a round in its readiness wait always leaves it, and leaves it for the
\* test of settings.running (the LLM call when running, the exit otherwise),
\* never for an error; the wait returns at once when the FAB is absent, at the
\* start timeout when the loading class is never seen, and else when the
\* class is removed or at the end of the wait timeout.
C33_WaitCompletes ==
    /\ InWait ~> ~InWait
    /\ [](Waiting /\ call.pc = "returned" =>
            \/ call.how = "absent" /\ call.fab = "absent" /\ call.t = 0
            \/ call.how = "not started" /\ call.t = call.chatu8StartTimeout
            \/ call.how = "finished" /\ call.fab = "idle"
            \/ call.how = "timeout" /\ call.fab = "loading" /\ call.t = call.chatu8Timeout)
    /\ [][(InWait /\ ~InWait') =>
            /\ Waiting /\ call.pc = "returned"
            /\ toasts' = << >>
            /\ IF settings.running
               THEN \E r \in BagToSet(act') : r.pc = "llm"
               ELSE act' = EmptyBag /\ ~isProcessing']_vars

\* the loading class stayed until the wait timeout, and the round is in its
\* LLM call
C33_Witness ==
    /\ Waiting
    /\ call.how = "timeout"
    /\ \E r \in Activations : r.pc = "llm"

\* ---- C34 -----------------------------------------------------------------
MaxPresets == 2

\* The call variable holds the preset store: settings.presets, a list of
\* [name, system_prompt] in the order of Object.keys (system_prompt: the
\* preset has one), and settings.selectedPreset, "" for no selection.
\* settings.preset is what getCurrentPreset finds there.
currentPreset(store) ==
    LET found == SelectSeq(store.presets, LAMBDA p : p.name = store.selectedPreset)
    IN IF store.selectedPreset = "" \/ found = << >> THEN "none"
       ELSE IF found[1].system_prompt THEN "ok" ELSE "empty"

\* deletePreset that leaves no selection
deletePreset_NoSelection(store, name) ==
    [store EXCEPT !.presets = SelectSeq(@, LAMBDA p : p.name # name),
                  !.selectedPreset = IF @ = name THEN "" ELSE @]

deletePreset(store, name) ==
    LET remaining == SelectSeq(store.presets, LAMBDA p : p.name # name)
    IN [store EXCEPT !.presets = remaining,
                     !.selectedPreset = IF @ # name THEN @
                                        ELSE IF Len(remaining) > 0 THEN remaining[1].name
                                        ELSE ""]

\* a handler of the preset panel leaves the store c
PresetStep(c) ==
    /\ call' = c
    /\ settings' = [settings EXCEPT !.preset = currentPreset(c)]
    /\ toasts' = << >>
    /\ logged' = << >>
    /\ UNCHANGED <<isProcessing, currentAbortController, aborted, act, sent>>

\* the delete button, once confirmed
PresetDeleted ==
    /\ call.selectedPreset # ""
    /\ PresetStep(deletePreset(call, call.selectedPreset))

\* the change handler of the preset dropdown
PresetSelected ==
    \E i \in DOMAIN call.presets :
        PresetStep([call EXCEPT !.selectedPreset = call.presets[i].name])

\* up to MaxPresets presets, one of them selected
InitPreset ==
    /\ \E p \in Persisted : settings = InitSettings(p)
    /\ isProcessing = FALSE
    /\ currentAbortController = 0
    /\ aborted = {}
    /\ act = EmptyBag
    /\ sent = 0
    /\ toasts = << >>
    /\ logged = << >>
    /\ \E n \in 1..MaxPresets, has \in [1..MaxPresets -> BOOLEAN], sel \in 1..MaxPresets :
          LET names == <<"p", "q", "r", "s">>
              store == [fn |-> "presets",
                        presets |-> [i \in 1..n |-> [name |-> names[i],
                                                     system_prompt |-> has[i]]],
                        selectedPreset |-> names[sel]]
          IN /\ sel <= n
             /\ \A i \in (n + 1)..MaxPresets : ~has[i]
             /\ call = store
             /\ settings.preset = currentPreset(store)

NextPreset ==
    \/ PresetDeleted
    \/ PresetSelected
    \/ StartClicked
    \/ StopClicked

SpecPreset == InitPreset /\ [][NextPreset]_vars

\* a step that deletes a preset
Deleted == Len(call'.presets) < Len(call.presets)

\* C34 as stated: after the deletion of the selected preset nothing is
\* selected, and start is refused.
C34_DeletionEmptiesSelection ==
    [][Deleted => /\ call'.selectedPreset = ""
                  /\ StartRefusal(settings') # ""]_vars

\* C34: after the deletion of the selected preset the first of the remaining
\* presets is selected, and nothing is selected exactly when none remains; as
\* long as nothing is selected getCurrentPreset finds none and a start is
\* refused without any change.
C34_DeletionSelectsFirstRemaining ==
    /\ [][Deleted =>
            /\ call'.presets = SelectSeq(call.presets,
                                         LAMBDA p : p.name # call.selectedPreset)
            /\ call'.selectedPreset = IF call'.presets = << >> THEN ""
                                      ELSE call'.presets[1].name]_vars
    /\ [](call.selectedPreset = "" =>
            /\ call.presets = << >>
            /\ settings.preset = "none"
            /\ StartRefusal(settings) \in {"enable first", "NO_PRESET"})
    /\ [][(StartClicked /\ call.selectedPreset = "") =>
            /\ UNCHANGED engine
            /\ toasts' \in {<<"enable first">>, <<"NO_PRESET">>}]_vars

\* the last preset is deleted and a start has been refused for want of one
C34_Witness ==
    /\ call.presets = << >>
    /\ call.selectedPreset = ""
    /\ toasts = <<"NO_PRESET">>

\* ---- C35 -----------------------------------------------------------------
\* C35: GENERATION_ENDED received while the director is enabled and running,
\* no round is in flight and currentRound >= rounds stops the director
\* (running = false) and notifies the stop.
C35_TriggerAfterLastRoundStops ==
    [][(/\ GenerationEnded
        /\ settings.enabled
        /\ settings.running
        /\ ~isProcessing
        /\ NumInFlight = 0
        /\ settings.currentRound >= settings.rounds) =>
            /\ ~settings'.running
            /\ toasts' = <<"stopped">>]_vars

\* ---- C36 -----------------------------------------------------------------
\* C36: GENERATION_ENDED received while a round is in flight, or while
\* running is false, changes none of currentRound, running, isProcessing and
\* the current AbortController, and begins no round and no LLM call.
C36_TriggerDroppedInFlight ==
    [][(GenerationEnded /\ (NumInFlight >= 1 \/ ~settings.running)) =>
          UNCHANGED engine]_vars

\* ---- C37 -----------------------------------------------------------------
\* C37: in every reachable state isProcessing implies settings.running, and
\* after a call of stopDirector (the Stop button) isProcessing is false.
C37_GeneratingImpliesRunning ==
    /\ [](isProcessing => settings.running)
    /\ [][StopClicked => ~isProcessing']_vars

\* a round is in its LLM call: isProcessing and running are both true
C37_Witness ==
    /\ isProcessing
    /\ settings.running
    /\ \E r \in Activations : r.pc = "llm"

\* ---- C38 -----------------------------------------------------------------
\* C38: the signal given to the LLM call of a round is the signal of the
\* AbortController that this activation of runDirectorRound created.
C38_SignalOfOwnController == \A r \in Activations : r.pc = "llm" => r.sig = r.own

\* ---- C39 -----------------------------------------------------------------
\* C39: no step hands a turn without text to sendAsUserAndGenerate: neither
\* the settling of an LLM call that returned a blank text, nor the Send button
\* of the review popup with the text emptied.
C39_NoBlankTurn ==
    [][\A r \in Activations :
          /\ LLMDone(r, "blank") => sent' = sent
          /\ ReviewDone(r, "") => sent' = sent]_vars

\* ---- C40 -----------------------------------------------------------------
\* the change handler of the enabled checkbox; the call variable keeps the
\* round at which the director was last disabled
EnabledChanged ==
    /\ settings' = [settings EXCEPT !.enabled = ~@]
    /\ call' = IF settings.enabled
               THEN [fn |-> "enabledChange", at |-> settings.currentRound,
                     running |-> settings.running]
               ELSE call
    /\ toasts' = << >>
    /\ logged' = << >>
    /\ UNCHANGED <<isProcessing, currentAbortController, aborted, act, sent>>

NextEnabled == NextAuto \/ EnabledChanged

SpecEnabled == InitAuto /\ [][NextEnabled]_vars

\* C40: while the director is disabled and running, GENERATION_ENDED changes
\* no state (running stays true, no round begins); once it is enabled again,
\* with rounds left and no round in flight, GENERATION_ENDED begins round
\* currentRound + 1.
C40_DisabledDropsEnabledResumes ==
    [][/\ (GenerationEnded /\ ~settings.enabled /\ settings.running) =>
             (UNCHANGED engine /\ settings'.running)
       /\ (/\ GenerationEnded
           /\ call.fn = "enabledChange"
           /\ settings.enabled
           /\ settings.running
           /\ NumInFlight = 0
           /\ settings.currentRound < settings.rounds) =>
             /\ settings'.currentRound = settings.currentRound + 1
             /\ settings'.running
             /\ isProcessing'
             /\ NumInFlight' = 1]_vars

\* disabled while running after round 1, enabled again: round 2 is in flight
C40_Witness ==
    /\ call.fn = "enabledChange"
    /\ call.running
    /\ call.at = 1
    /\ settings.enabled
    /\ settings.running
    /\ settings.currentRound = 2
    /\ sent = 1
    /\ NumInFlight = 1

====
